---- MODULE Spec2Model ----
(***************************************************************************)
(* RunTogether Radcliffe weekly message generator (src/app.py).            *)
(*                                                                         *)
(* Text is modelled as TLA+ strings.  Emoji and typographic punctuation of *)
(* the copy pools are transliterated to ASCII and the pool entries are     *)
(* abbreviated; every pool keeps the number and the order of its entries.  *)
(* The final message, a single string joined with "\n" in the code, is     *)
(* kept as the sequence of its lines.                                      *)
(***************************************************************************)
EXTENDS Integers, Sequences, FiniteSets, Bags, TLC

VARIABLES
  now_date,       \* datetime.now(UK_TZ).date()
  session_state,  \* st.session_state of each browser session
  date_sel,       \* value of the date selectbox, None before the first run
  platform_sel,   \* value of the platform selectbox, None before the first run
  answers,        \* what Strava answered in the session's last script run
  seed_used,      \* the seed of the session's last script run
  message,        \* the "Generated message" text area, as lines
  shuffles,       \* history: clicks on "Shuffle wording" per session
  call,           \* a function applied on its own: its name and arguments
  ret             \* None, or Some(result) of the call

vars == <<now_date, session_state, date_sel, platform_sel, answers, seed_used,
          message, shuffles, call, ret>>

appVars == <<now_date, session_state, date_sel, platform_sel, answers, seed_used,
             message, shuffles>>

(***************************************************************************)
(* Python built-ins used by the code                                       *)
(***************************************************************************)

\* Optional[...] values: None, or a present value.
None == <<>>

Some(v) == <<v>>

UpperCase == "ABCDEFGHIJKLMNOPQRSTUVWXYZ"

LowerCase == "abcdefghijklmnopqrstuvwxyz"

Printable == "abcdefghijklmnopqrstuvwxyz0123456789 -:#_/.,!*+'?ABCDEFGHIJKLMNOPQRSTUVWXYZ"

CharAt(s, i) == SubSeq(s, i, i)

LowerOf ==
  [c \in {CharAt(UpperCase, i) : i \in 1..Len(UpperCase)} |->
     CharAt(LowerCase, CHOOSE i \in 1..Len(UpperCase) : CharAt(UpperCase, i) = c)]

\* str.lower(), one character
LowerChar(c) == IF c \in DOMAIN LowerOf THEN LowerOf[c] ELSE c

RECURSIVE LowerRange(_, _, _)
\* characters lo..hi of s in lower case (halving keeps the recursion shallow)
LowerRange(s, lo, hi) ==
  IF lo > hi THEN ""
  ELSE IF lo = hi THEN LowerChar(CharAt(s, lo))
  ELSE LET mid == (lo + hi) \div 2
       IN  LowerRange(s, lo, mid) \o LowerRange(s, mid + 1, hi)

\* str.lower()
lower(s) == LowerRange(s, 1, Len(s))

\* Python's  needle in hay  for strings
Contains(needle, hay) ==
  \E i \in 1..(Len(hay) - Len(needle) + 1) :
    SubSeq(hay, i, i + Len(needle) - 1) = needle

RECURSIVE strip(_)
\* str.strip() (the only whitespace of the modelled cells is the space)
strip(s) ==
  IF Len(s) = 0 THEN s
  ELSE IF CharAt(s, 1) = " " THEN strip(SubSeq(s, 2, Len(s)))
  ELSE IF CharAt(s, Len(s)) = " " THEN strip(SubSeq(s, 1, Len(s) - 1))
  ELSE s

RECURSIVE replace(_, _, _)
\* str.replace(old, new): every non-overlapping occurrence, left to right
replace(text, old, new) ==
  LET hits == {i \in 1..(Len(text) - Len(old) + 1) :
                 SubSeq(text, i, i + Len(old) - 1) = old}
  IN  IF hits = {} THEN text
      ELSE LET first == CHOOSE i \in hits : \A j \in hits : i <= j
           IN  SubSeq(text, 1, first - 1) \o new
               \o replace(SubSeq(text, first + Len(old), Len(text)), old, new)

RECURSIVE join(_, _)
\* sep.join(parts)
join(sep, parts) ==
  IF Len(parts) = 0 THEN ""
  ELSE IF Len(parts) = 1 THEN parts[1]
  ELSE parts[1] \o sep \o join(sep, Tail(parts))

Digits == "0123456789"

RECURSIVE IntStr(_)
\* str(n) for n >= 0
IntStr(n) ==
  IF n < 10 THEN CharAt(Digits, n + 1)
  ELSE IntStr(n \div 10) \o CharAt(Digits, (n % 10) + 1)

\* zero-padded decimal, as %02d / %04d
Pad(n, width) ==
  LET s == IntStr(n)
  IN  SubSeq("0000", 1, width - Len(s)) \o s

Range(seq) == {seq[i] : i \in 1..Len(seq)}

(***************************************************************************)
(* datetime.date: a date is its proleptic Gregorian ordinal                *)
(* (date.toordinal(), 0001-01-01 = 1, a Monday).                           *)
(***************************************************************************)

\* date.weekday(): Monday = 0 ... Sunday = 6
weekday(d) == (d + 6) % 7

IsLeap(y) == (y % 4 = 0) /\ ((y % 100 # 0) \/ (y % 400 = 0))

DaysBeforeYear(y) ==
  LET p == y - 1 IN p * 365 + (p \div 4) - (p \div 100) + (p \div 400)

DaysInMonth(y, m) ==
  IF m = 2 THEN (IF IsLeap(y) THEN 29 ELSE 28)
  ELSE IF m \in {4, 6, 9, 11} THEN 30 ELSE 31

RECURSIVE DaysBeforeMonth(_, _)
DaysBeforeMonth(y, m) ==
  IF m = 1 THEN 0 ELSE DaysBeforeMonth(y, m - 1) + DaysInMonth(y, m - 1)

\* date(y, m, d).toordinal()
Ordinal(y, m, d) == DaysBeforeYear(y) + DaysBeforeMonth(y, m) + d

\* date.fromordinal(n) as <<year, month, day>>
Civil(n) ==
  LET y == CHOOSE yy \in (n \div 366)..((n \div 365) + 1) :
             DaysBeforeYear(yy) < n /\ n <= DaysBeforeYear(yy + 1)
      r == n - DaysBeforeYear(y)
      m == CHOOSE mm \in 1..12 :
             DaysBeforeMonth(y, mm) < r /\ r <= DaysBeforeMonth(y, mm) + DaysInMonth(y, mm)
  IN  <<y, m, r - DaysBeforeMonth(y, m)>>

\* str(date): ISO format YYYY-MM-DD
DateStr(d) ==
  LET c == Civil(d)
  IN  Pad(c[1], 4) \o "-" \o Pad(c[2], 2) \o "-" \o Pad(c[3], 2)

(***************************************************************************)
(* Constants & helpers (src/app.py 36-90)                                  *)
(***************************************************************************)

ELEVATION_TEXT_CHOICES ==
  << [lo |-> 0, hi |-> 20,
      choices |-> <<"flat as a pancake", "pancake-flat", "nice and flat",
                    "no climbs to worry about">>],
     [lo |-> 20, hi |-> 60,
      choices |-> <<"a gently rolling route", "soft ups and downs",
                    "a touch of undulation", "lightly rolling">>],
     [lo |-> 60, hi |-> 140,
      choices |-> <<"some hills this week", "a few punchy rises",
                    "rolling with a couple of climbs", "a bit lumpy">>],
     [lo |-> 140, hi |-> 99999,
      choices |-> <<"hilly - bring your climbing legs!", "properly hilly",
                    "plenty of climbing on tap", "a big-elevation outing">>] >>

CodeOf ==
  [c \in {CharAt(Printable, i) : i \in 1..Len(Printable)} |->
     CHOOSE i \in 1..Len(Printable) : CharAt(Printable, i) = c]

Code(c) == IF c \in DOMAIN CodeOf THEN CodeOf[c] ELSE 0

\* position-weighted sum of the character codes of s
StrHash(s) ==
  BagCardinality([i \in 1..Len(s) |->
                    1 + Code(CharAt(s, i)) * (1 + ((i * i) % 97))]) - Len(s)

\* random.Random(key).choice(options) draws an index below len(options) from
\* a private generator seeded with the key string alone.  The generator is
\* modelled by a hash of the key: a fixed function of (key, n).
RandomIndex(key, n) == StrHash(key) % n

\* seeded_choice drawing from one generator shared by the whole process: the
\* draw also depends on how many sessions have rendered so far
seeded_choice_shared(options, seed, tag) ==
  LET drawn == Cardinality({s \in DOMAIN date_sel : date_sel[s] # None})
  IN  options[((RandomIndex(seed \o ":" \o tag, Len(options)) + drawn) % Len(options)) + 1]

seeded_choice(options, seed, tag) ==
  options[RandomIndex(seed \o ":" \o tag, Len(options)) + 1]

RECURSIVE ElevationFrom(_, _, _)
ElevationFrom(i, total_elev_m, seed) ==
  IF i > Len(ELEVATION_TEXT_CHOICES) THEN "varied terrain"
  ELSE LET b == ELEVATION_TEXT_CHOICES[i]
       IN  IF b.lo <= total_elev_m /\ total_elev_m < b.hi
           THEN seeded_choice(b.choices, seed,
                              "elev_" \o IntStr(b.lo) \o "_" \o IntStr(b.hi))
           ELSE ElevationFrom(i + 1, total_elev_m, seed)

\* describe_elevation with the band test written  lo < e <= hi
describe_elevation_upto(total_elev_m, seed) ==
  LET hits == {i \in 1..Len(ELEVATION_TEXT_CHOICES) :
                 /\ ELEVATION_TEXT_CHOICES[i].lo < total_elev_m
                 /\ total_elev_m <= ELEVATION_TEXT_CHOICES[i].hi}
  IN  IF hits = {} THEN "varied terrain"
      ELSE LET b == ELEVATION_TEXT_CHOICES[CHOOSE i \in hits : \A j \in hits : i <= j]
           IN  seeded_choice(b.choices, seed,
                             "elev_" \o IntStr(b.lo) \o "_" \o IntStr(b.hi))

describe_elevation(total_elev_m, seed) == ElevationFrom(1, total_elev_m, seed)

\* next_thursday with "strictly after today": a Thursday moves on a full week
next_thursday_strict(today) ==
  LET days_ahead == ((2 - weekday(today)) % 7) + 1
  IN  today + days_ahead

\* (3 - today.weekday()) % 7 days ahead of today
next_thursday(today) ==
  LET days_ahead == (3 - weekday(today)) % 7
  IN  today + days_ahead

\* A spreadsheet cell is NaN (None) or Some(text).
cell_text(row, key, default) ==
  LET val == row[key]
  IN  IF val = None THEN default ELSE strip(val[1])

(***************************************************************************)
(* Strava API (src/app.py 108-179).  The HTTP calls are inputs: a call     *)
(* either raises or returns the route's metadata.                          *)
(***************************************************************************)

RECURSIVE split(_, _)
\* str.split(sep) for a one-character separator
split(s, sep) ==
  LET hits == {i \in 1..Len(s) : CharAt(s, i) = sep}
  IN  IF hits = {} THEN <<s>>
      ELSE LET first == CHOOSE i \in hits : \A j \in hits : i <= j
           IN  <<SubSeq(s, 1, first - 1)>> \o split(SubSeq(s, first + 1, Len(s)), sep)

RECURSIVE StripChar(_, _)
\* str.strip(ch)
StripChar(s, ch) ==
  IF Len(s) = 0 THEN s
  ELSE IF CharAt(s, 1) = ch THEN StripChar(SubSeq(s, 2, Len(s)), ch)
  ELSE IF CharAt(s, Len(s)) = ch THEN StripChar(SubSeq(s, 1, Len(s) - 1), ch)
  ELSE s

IsDigits(s) ==
  /\ Len(s) > 0
  /\ \A i \in 1..Len(s) : \E j \in 1..Len(Digits) : CharAt(s, i) = CharAt(Digits, j)

RECURSIVE ParseInt(_, _, _)
ParseInt(s, i, acc) ==
  IF i > Len(s) THEN acc
  ELSE ParseInt(s, i + 1,
                acc * 10 + (CHOOSE j \in 1..Len(Digits) : CharAt(s, i) = CharAt(Digits, j)) - 1)

\* The path part after the first "routes" part, as an integer; None when
\* there is no such part or it is not a number (the except branch).
extract_route_id_from_strava_url(url) ==
  LET parts == split(StripChar(url, "/"), "/")
      hits  == {i \in 1..Len(parts) : parts[i] = "routes"}
  IN  IF hits = {} THEN None
      ELSE LET idx == CHOOSE i \in hits : \A j \in hits : i <= j
           IN  IF idx + 1 <= Len(parts) /\ IsDigits(parts[idx + 1])
               THEN Some(ParseInt(parts[idx + 1], 1, 0))
               ELSE None

(***************************************************************************)
(* Message generation (src/app.py 259-410)                                 *)
(***************************************************************************)

GREETINGS ==
  <<"Hope you're having a great week!", "Hey team!", "Hiya!", "Evening crew!",
    "Hello runners!", "Ready to run?">>

THURSDAY_LEADS ==
  <<"Here's what's lined up for Thursday...", "Thursday's nearly here!",
    "Fancy a Thursday run?", "This week's routes are looking good:",
    "Two routes ready for you this Thursday:">>

ROUTE_INTROS_GENERAL ==
  <<"This week we've got two route options:", "Pick your route - two options:",
    "Two choices - take your pick:", "Two routes on offer this Thursday:">>

TRAIL_INTROS ==
  <<"Summer trails are calling!", "Trail time!", "Trails this week - watch your footing.">>

ROAD_INTROS ==
  <<"It's road time as the evenings draw in.", "Running after dark means roads.",
    "Sticking to the roads tonight for safety.">>

SAFETY_NOTES ==
  <<"Please ensure you have your lights and wear hi-vis clothing.",
    "Please bring a headtorch and wear hi-vis.",
    "Pack your lights and pop on some hi-vis, please.">>

OUTROS ==
  <<"Grab your shoes, bring your smiles - see you Thursday!",
    "See you at 7:00pm - let's make it a good one!",
    "Bring a mate, say hello, and enjoy the miles!",
    "Happy running - see you soon!">>

EVENT_TEMPLATES ==
  ("Social after the run" :>
     <<"After the run, many of us are going for drinks at the market!",
       "Post-run social at the market!">>)
  @@ ("Wear it green" :>
     <<"It's Mental Health Awareness Week - wear something green.",
       "Wear something green for Mental Health Awareness Week.">>)
  @@ ("Pride" :>
     <<"Our Pride Run coincides with Manchester Pride!",
       "Pride week! Bring the colour.">>)

TourPrefix == "We're on tour! Tap for the meet point: "

GenericPrefix == "This week features: "

build_intro(seed, terrain, special) ==
  LET g    == seeded_choice(GREETINGS, seed, "greet")
      t    == seeded_choice(THURSDAY_LEADS, seed, "lead")
      bits == <<g, t>> \o
              (IF terrain = "trail" THEN <<seeded_choice(TRAIL_INTROS, seed, "trail")>>
               ELSE IF terrain = "road" THEN <<seeded_choice(ROAD_INTROS, seed, "road")>>
               ELSE <<>>)
  IN  join(" ", bits)

\* special_event_blurb as an if/elif chain: only the first matching token
\* contributes a fragment
special_event_blurb_elif(event_cell, meet_maps, seed) ==
  IF event_cell = "" THEN <<>>
  ELSE
    LET e == lower(event_cell)
    IN  IF Contains("social", e)
        THEN <<seeded_choice(EVENT_TEMPLATES["Social after the run"], seed, "ev_social")>>
        ELSE IF Contains("rtr on tour", e) /\ meet_maps # ""
        THEN <<TourPrefix \o meet_maps>>
        ELSE IF Contains("wear it green", e)
        THEN <<seeded_choice(EVENT_TEMPLATES["Wear it green"], seed, "ev_green")>>
        ELSE IF Contains("pride", e)
        THEN <<seeded_choice(EVENT_TEMPLATES["Pride"], seed, "ev_pride")>>
        ELSE <<GenericPrefix \o event_cell>>

\* special_event_blurb without the  and meet_maps  test: the on-tour fragment
\* is appended whether or not there is a map link
special_event_blurb_nolink(event_cell, meet_maps, seed) ==
  IF event_cell = "" THEN <<>>
  ELSE
    LET e    == lower(event_cell)
        t1   == IF Contains("social", e)
                THEN <<seeded_choice(EVENT_TEMPLATES["Social after the run"], seed, "ev_social")>> ELSE <<>>
        t2   == IF Contains("rtr on tour", e)
                THEN <<TourPrefix \o meet_maps>> ELSE <<>>
        t3   == IF Contains("wear it green", e)
                THEN <<seeded_choice(EVENT_TEMPLATES["Wear it green"], seed, "ev_green")>> ELSE <<>>
        t4   == IF Contains("pride", e)
                THEN <<seeded_choice(EVENT_TEMPLATES["Pride"], seed, "ev_pride")>> ELSE <<>>
        text == t1 \o t2 \o t3 \o t4
    IN  IF text = <<>> THEN <<GenericPrefix \o event_cell>> ELSE text

\* special_event_blurb that keeps one of the matching fragments, drawn with
\* the seed, instead of all of them
special_event_blurb_draw(event_cell, meet_maps, seed) ==
  IF event_cell = "" THEN <<>>
  ELSE
    LET e    == lower(event_cell)
        t1   == IF Contains("social", e)
                THEN <<seeded_choice(EVENT_TEMPLATES["Social after the run"], seed, "ev_social")>> ELSE <<>>
        t2   == IF Contains("rtr on tour", e) /\ meet_maps # ""
                THEN <<TourPrefix \o meet_maps>> ELSE <<>>
        t3   == IF Contains("wear it green", e)
                THEN <<seeded_choice(EVENT_TEMPLATES["Wear it green"], seed, "ev_green")>> ELSE <<>>
        t4   == IF Contains("pride", e)
                THEN <<seeded_choice(EVENT_TEMPLATES["Pride"], seed, "ev_pride")>> ELSE <<>>
        text == t1 \o t2 \o t3 \o t4
    IN  IF text = <<>> THEN <<GenericPrefix \o event_cell>>
        ELSE <<seeded_choice(text, seed, "ev")>>

\* The list  text  of the function; the code returns it joined with "\n".
special_event_blurb(event_cell, meet_maps, seed) ==
  IF event_cell = "" THEN <<>>
  ELSE
    LET e    == lower(event_cell)
        t1   == IF Contains("social", e)
                THEN <<seeded_choice(EVENT_TEMPLATES["Social after the run"], seed, "ev_social")>> ELSE <<>>
        t2   == IF Contains("rtr on tour", e) /\ meet_maps # ""
                THEN <<TourPrefix \o meet_maps>> ELSE <<>>
        t3   == IF Contains("wear it green", e)
                THEN <<seeded_choice(EVENT_TEMPLATES["Wear it green"], seed, "ev_green")>> ELSE <<>>
        t4   == IF Contains("pride", e)
                THEN <<seeded_choice(EVENT_TEMPLATES["Pride"], seed, "ev_pride")>> ELSE <<>>
        text == t1 \o t2 \o t3 \o t4
    IN  IF text = <<>> THEN <<GenericPrefix \o event_cell>> ELSE text

\* f"{km:.1f}" for a distance kept in tenths of a kilometre
Km1f(km10) == IntStr(km10 \div 10) \o "." \o IntStr(km10 % 10)

\* The lines one route adds; a route is (label, url, km, elev, landmarks).
RouteLines(r, intro) ==
  LET elev_desc == describe_elevation(r.elev, intro)
  IN  <<"- " \o r.label \o ": " \o r.url>>
      \o (IF r.km10 # 0
          THEN <<"  " \o Km1f(r.km10) \o " km with " \o IntStr(r.elev)
                 \o "m of elevation - " \o elev_desc>>
          ELSE <<>>)
      \o (IF r.landmarks # <<>>
          THEN <<"  This route passes " \o join(", ", r.landmarks)>>
          ELSE <<>>)

RECURSIVE AllRouteLines(_, _)
AllRouteLines(routes, intro) ==
  IF routes = <<>> THEN <<>>
  ELSE RouteLines(Head(routes), intro) \o AllRouteLines(Tail(routes), intro)

BookLine == "Book now: https://groups.runtogether.co.uk/RunTogetherRadcliffe/Runs"

CancelLine == "Can't make it? Cancel at least 1 hour before: https://groups.runtogether.co.uk/My/BookedRuns"

wa_bold(platform, s) == IF platform = "WhatsApp" THEN "*" \o s \o "*" ELSE s

\* platform_blocks with the special-event block appended after the booking
\* and cancellation lines
platform_blocks_event_after_cta(platform, intro, route_intro, meet_point, depart_time, routes, terrain_flag, safety_note, event_text, outro) ==
  LET lines ==
        <<intro, "", "Meeting at: " \o meet_point, "We set off at 7:00pm", "", route_intro>>
        \o AllRouteLines(routes, intro)
        \o (IF terrain_flag = "road" /\ safety_note # None /\ safety_note # Some("")
            THEN <<"", safety_note[1]>> ELSE <<>>)
        \o <<"", BookLine, CancelLine>>
        \o (IF event_text # <<>> THEN <<"">> \o event_text ELSE <<>>)
        \o <<"", outro>>
  IN  IF platform = "Email" THEN lines
      ELSE IF platform = "WhatsApp"
      THEN [i \in 1..Len(lines) |->
              replace(replace(lines[i], "Meeting at:", wa_bold(platform, "Meeting at:")),
                      "We set off at 7:00pm", wa_bold(platform, "We set off at 7:00pm"))]
      ELSE IF platform \in {"Facebook", "Instagram"} THEN lines
      ELSE lines

platform_blocks(platform, intro, route_intro, meet_point, depart_time, routes, terrain_flag, safety_note, event_text, outro) ==
  LET lines ==
        <<intro, "", "Meeting at: " \o meet_point, "We set off at 7:00pm", "", route_intro>>
        \o AllRouteLines(routes, intro)
        \o (IF terrain_flag = "road" /\ safety_note # None /\ safety_note # Some("")
            THEN <<"", safety_note[1]>> ELSE <<>>)
        \o (IF event_text # <<>> THEN <<"">> \o event_text ELSE <<>>)
        \o <<"", BookLine, CancelLine>>
        \o <<"", outro>>
  IN  IF platform = "Email" THEN lines
      ELSE IF platform = "WhatsApp"
      THEN [i \in 1..Len(lines) |->
              replace(replace(lines[i], "Meeting at:", wa_bold(platform, "Meeting at:")),
                      "We set off at 7:00pm", wa_bold(platform, "We set off at 7:00pm"))]
      ELSE IF platform \in {"Facebook", "Instagram"} THEN lines
      ELSE lines

(***************************************************************************)
(* UI - Generator (src/app.py 487-585)                                     *)
(***************************************************************************)

\* df.loc[df['Date'] == chosen_date].iloc[0]
RowFor(frame, chosen_date) ==
  frame[CHOOSE i \in 1..Len(frame) :
          /\ frame[i]["Date"] = chosen_date
          /\ \A j \in 1..(i - 1) : frame[j]["Date"] # chosen_date]

\* sorted(df['Date'].unique())
DatesOf(frame) == {frame[i]["Date"] : i \in 1..Len(frame)}

MinDate(ds) == CHOOSE d \in ds : \A e \in ds : d <= e

\* default_date of the date selectbox
DefaultDate(frame, now) ==
  LET dates        == DatesOf(frame)
      default_date == next_thursday(now)
  IN  IF default_date \notin dates /\ dates # {} THEN MinDate(dates) ELSE default_date

\* One entry of routes_out.  access is None or Some(token); fetched is the
\* outcome of get_route_meta and on_route_landmarks for this route: None when
\* one of them raises, else Some([km10, elev, landmarks]).
RouteOut(name, url, access, fetched) ==
  LET got == /\ url # ""
             /\ access # None
             /\ extract_route_id_from_strava_url(url) # None
             /\ fetched # None
  IN  [label     |-> name,
       url       |-> url,
       km10      |-> IF got THEN fetched[1].km10 ELSE 0,
       elev      |-> IF got THEN fetched[1].elev ELSE 0,
       landmarks |-> IF got THEN fetched[1].landmarks ELSE <<>>]

\* generator_page with the platform as one more part of the seed
generator_page_platform_seed(row, chosen_date, var_seed_offset, platform, strava) ==
  LET mp           == cell_text(row, "Meeting point", "")
      meet_point   == IF mp = "" THEN "Radcliffe Market" ELSE mp
      meet_link    == cell_text(row, "Meeting point google link", "")
      notes        == cell_text(row, "Notes", "")
      special      == cell_text(row, "Special events", "")
      terrain_flag == IF Contains("trail", lower(notes)) THEN "trail"
                      ELSE IF Contains("after dark", lower(notes)) THEN "road"
                      ELSE ""
      base_seed    == DateStr(chosen_date) \o "-" \o terrain_flag \o "-" \o special
      seed         == base_seed \o "-" \o platform \o "-#" \o IntStr(var_seed_offset)
      routes_in    == << <<cell_text(row, "8k Route", "8k route"),
                           cell_text(row, "8k Strava link", "")>>,
                         <<cell_text(row, "5k Route", "5k route"),
                           cell_text(row, "5k Strava link", "")>> >>
      routes_out   == << RouteOut(routes_in[1][1], routes_in[1][2],
                                  strava.access, strava.fetched[1]),
                         RouteOut(routes_in[2][1], routes_in[2][2],
                                  strava.access, strava.fetched[2]) >>
      intro        == build_intro(seed, terrain_flag, special)
      route_intro  == seeded_choice(ROUTE_INTROS_GENERAL, seed, "route_intro")
      safety_note  == IF terrain_flag = "road"
                      THEN Some(seeded_choice(SAFETY_NOTES, seed, "safety"))
                      ELSE None
      event_text   == special_event_blurb(special, meet_link, seed)
      outro        == seeded_choice(OUTROS, seed, "outro")
  IN  [seed |-> seed,
       msg  |-> platform_blocks(platform, intro, route_intro, meet_point, "7:00pm",
                                routes_out, terrain_flag, safety_note, event_text, outro)]

\* One run of the script body from the row lookup to the message, with the
\* session's counter as it stands after the button was handled.
\* strava = [access, fetched |-> <<outcome for the 8k route, for the 5k route>>]
generator_page(row, chosen_date, var_seed_offset, platform, strava) ==
  LET mp           == cell_text(row, "Meeting point", "")
      meet_point   == IF mp = "" THEN "Radcliffe Market" ELSE mp
      meet_link    == cell_text(row, "Meeting point google link", "")
      notes        == cell_text(row, "Notes", "")
      special      == cell_text(row, "Special events", "")
      terrain_flag == IF Contains("trail", lower(notes)) THEN "trail"
                      ELSE IF Contains("after dark", lower(notes)) THEN "road"
                      ELSE ""
      base_seed    == DateStr(chosen_date) \o "-" \o terrain_flag \o "-" \o special
      seed         == base_seed \o "-#" \o IntStr(var_seed_offset)
      routes_in    == << <<cell_text(row, "8k Route", "8k route"),
                           cell_text(row, "8k Strava link", "")>>,
                         <<cell_text(row, "5k Route", "5k route"),
                           cell_text(row, "5k Strava link", "")>> >>
      routes_out   == << RouteOut(routes_in[1][1], routes_in[1][2],
                                  strava.access, strava.fetched[1]),
                         RouteOut(routes_in[2][1], routes_in[2][2],
                                  strava.access, strava.fetched[2]) >>
      intro        == build_intro(seed, terrain_flag, special)
      route_intro  == seeded_choice(ROUTE_INTROS_GENERAL, seed, "route_intro")
      safety_note  == IF terrain_flag = "road"
                      THEN Some(seeded_choice(SAFETY_NOTES, seed, "safety"))
                      ELSE None
      event_text   == special_event_blurb(special, meet_link, seed)
      outro        == seeded_choice(OUTROS, seed, "outro")
  IN  [seed |-> seed,
       msg  |-> platform_blocks(platform, intro, route_intro, meet_point, "7:00pm",
                                routes_out, terrain_flag, safety_note, event_text, outro)]

(***************************************************************************)
(* Inputs                                                                  *)
(***************************************************************************)

\* the shuffle counter is capped at MaxShuffle
MaxShuffle == 2

\* next_thursday is applied to MaxDays + 1 consecutive days
MaxDays == 27

\* the options of the platform selectbox
PLATFORMS == <<"WhatsApp", "Facebook", "Instagram", "Email">>

MkRow(d, special, notes, meet, meet_link, r8, l8, r5, l5) ==
  ("Date" :> d) @@ ("Special events" :> special) @@ ("Notes" :> notes)
  @@ ("Meeting point" :> meet) @@ ("Meeting point google link" :> meet_link)
  @@ ("8k Route" :> r8) @@ ("8k Strava link" :> l8)
  @@ ("5k Route" :> r5) @@ ("5k Strava link" :> l5)

Url8 == "https://www.strava.com/routes/8"

Url5 == "https://www.strava.com/routes/5"

MapsUrl == "https://maps.app.goo.gl/x1"

\* The schedule sheet the sessions of the app read (load_schedule).
Schedule ==
  << MkRow(Ordinal(2025, 6, 19), None, Some("Road, after dark"),
           Some("Radcliffe market"), None,
           Some("Riverside"), Some(Url8), Some("Park Loop"), Some(Url5)),
     MkRow(Ordinal(2025, 6, 26), Some("Pride social this week"), Some("Trail"),
           None, None,
           Some("Canal"), Some(Url8), Some("Close Park"), None),
     MkRow(Ordinal(2025, 7, 3), Some("RTR on tour"), Some("Trail, back after dark"),
           Some("Outwood Park"), Some(MapsUrl),
           None, Some(Url8), Some(" "), Some(Url5)) >>

\* The days on which the app is opened.
Todays == {Ordinal(2025, 6, 18), Ordinal(2025, 6, 19), Ordinal(2025, 7, 5)}

\* What the Strava and LocationIQ calls of one script run answer.
StravaScenarios ==
  { [access |-> None, fetched |-> <<None, None>>],
    [access |-> Some("token"),
     fetched |-> << Some([km10 |-> 81, elev |-> 59, landmarks |-> <<"Outwood Trail">>]),
                    Some([km10 |-> 50, elev |-> 20, landmarks |-> <<>>]) >>],
    [access |-> Some("token"),
     fetched |-> << None,
                    Some([km10 |-> 0, elev |-> 140, landmarks |-> <<"Close Park">>]) >>] }

NotesCells ==
  {None, Some("Trail"), Some("Road - after dark"), Some("TRAIL run, back After Dark")}

SpecialCells ==
  {None, Some("Social"), Some("Pride social this week"), Some("RTR on tour"),
   Some("RTR on Tour: Pride"), Some("Club on tour"), Some("Wear it green"),
   Some("Mental Health Awareness Week"), Some("Quiz night")}

MeetCells == { <<None, None>>, <<Some("Outwood Park"), Some(MapsUrl)>> }

Route8Cells ==
  { <<Some("Riverside"), Some(Url8)>>, <<Some(" "), Some(Url8)>>, <<None, None>> }

Route5Cells ==
  { <<Some("Park Loop"), Some(Url5)>>, <<Some("Park Loop"), Some("  ")>>,
    <<Some(""), Some("https://example.org/5k")>> }

\* The rows the page is applied to as a function.
Rows ==
  { MkRow(Ordinal(2025, 6, 19), sp, n, m[1], m[2], r8[1], r8[2], r5[1], r5[2]) :
      sp \in SpecialCells, n \in NotesCells, m \in MeetCells,
      r8 \in Route8Cells, r5 \in Route5Cells }

PageCalls ==
  [fn : {"generator_page"}, row : Rows, platform : Range(PLATFORMS),
   offset : 0..MaxShuffle, strava : StravaScenarios]

OneRoute ==
  [label |-> "Riverside", url |-> Url8, km10 |-> 81, elev |-> 59, landmarks |-> <<>>]

\* elevation gains around the limits of the bands, in metres
ElevCases == {0, 19, 20, 59, 60, 139, 140, 5000, 99998, 99999, 100000}

\* distances in tenths of a kilometre; 0 is also what a route without
\* fetched metrics carries
KmCases == {0, 5, 81}

RouteCases ==
  { [label |-> "Riverside", url |-> Url8, km10 |-> k, elev |-> e, landmarks |-> <<>>] :
      k \in KmCases, e \in ElevCases }

BlocksCalls ==
  [fn : {"platform_blocks"}, platform : Range(PLATFORMS) \cup {"TikTok"},
   routes : {<<>>, <<OneRoute>>} \cup {<<r>> : r \in RouteCases},
   terrain_flag : {"", "trail", "road"},
   safety_note : {None, Some(SAFETY_NOTES[1])},
   event_text : {<<>>, <<GenericPrefix \o "Quiz night">>}]

DateCalls ==
  [fn : {"next_thursday"},
   today : Ordinal(2025, 6, 1)..(Ordinal(2025, 6, 1) + MaxDays)]

(***************************************************************************)
(* State                                                                   *)
(***************************************************************************)

Sessions == {"s1", "s2"}

EmptyDict == [k \in {} |-> 0]

HasKey(dict, k) == k \in DOMAIN dict

\* f as an explicit table: its values are computed once, not at every use
Tabulated(f) == f @@ EmptyDict

\* The page for the schedule's row of a date, over the inputs the sessions
\* can give it.
PageTable ==
  Tabulated(
    [a \in DatesOf(Schedule) \X (0..MaxShuffle) \X Range(PLATFORMS) \X StravaScenarios |->
       generator_page(RowFor(Schedule, a[1]), a[1], a[2], a[3], a[4])])

\* if 'var_seed_offset' not in st.session_state: st.session_state[...] = 0
InitOffset(state) ==
  IF HasKey(state, "var_seed_offset") THEN state ELSE [var_seed_offset |-> 0]

\* the counter as one value of the process: a click moves every session's
\* counter on
ButtonClicked_global(all, s) ==
  [t \in DOMAIN all |-> [var_seed_offset |-> InitOffset(all[t]).var_seed_offset + 1]]

\* if st.button("Shuffle wording"): st.session_state['var_seed_offset'] += 1
\* all is the session_state of every session, s the session whose script runs
ButtonClicked(all, s) ==
  [all EXCEPT ![s] = [var_seed_offset |-> InitOffset(all[s]).var_seed_offset + 1]]

ButtonIdle(all, s) == [all EXCEPT ![s] = InitOffset(all[s])]

\* One run of generator_page in session s: the widgets hold date d and
\* platform p, clicked tells whether the shuffle button triggered the run.
ScriptRun(s, d, p, clicked, st) ==
  LET state1 == IF clicked THEN ButtonClicked(session_state, s)
                ELSE ButtonIdle(session_state, s)
      out    == PageTable[<<d, state1[s].var_seed_offset, p, st>>]
  IN  /\ session_state' = state1
      /\ date_sel' = [date_sel EXCEPT ![s] = Some(d)]
      /\ platform_sel' = [platform_sel EXCEPT ![s] = Some(p)]
      /\ answers' = [answers EXCEPT ![s] = Some(st)]
      /\ seed_used' = [seed_used EXCEPT ![s] = out.seed]
      /\ message' = [message EXCEPT ![s] = out.msg]
      /\ UNCHANGED <<now_date, call, ret>>

Opened(s) == date_sel[s] # None

\* A browser opens the page: the first run of the script in the session.
Open(s) ==
  /\ ~Opened(s)
  /\ \E st \in StravaScenarios :
       ScriptRun(s, DefaultDate(Schedule, now_date), PLATFORMS[1], FALSE, st)
  /\ UNCHANGED shuffles

PickDate(s, d) ==
  /\ Opened(s)
  /\ d # date_sel[s][1]
  /\ \E st \in StravaScenarios : ScriptRun(s, d, platform_sel[s][1], FALSE, st)
  /\ UNCHANGED shuffles

PickPlatform(s, p) ==
  /\ Opened(s)
  /\ p # platform_sel[s][1]
  /\ \E st \in StravaScenarios : ScriptRun(s, date_sel[s][1], p, FALSE, st)
  /\ UNCHANGED shuffles

Shuffle(s) ==
  /\ Opened(s)
  /\ session_state[s].var_seed_offset < MaxShuffle
  /\ \E st \in StravaScenarios :
       ScriptRun(s, date_sel[s][1], platform_sel[s][1], TRUE, st)
  /\ shuffles' = [shuffles EXCEPT ![s] = @ + 1]

\* Any other widget that reruns the script (the download button).
Rerun(s) ==
  /\ Opened(s)
  /\ \E st \in StravaScenarios :
       ScriptRun(s, date_sel[s][1], platform_sel[s][1], FALSE, st)
  /\ UNCHANGED shuffles

Init ==
  /\ now_date \in Todays
  /\ session_state = [s \in Sessions |-> EmptyDict]
  /\ date_sel = [s \in Sessions |-> None]
  /\ platform_sel = [s \in Sessions |-> None]
  /\ answers = [s \in Sessions |-> None]
  /\ seed_used = [s \in Sessions |-> ""]
  /\ message = [s \in Sessions |-> <<>>]
  /\ shuffles = [s \in Sessions |-> 0]
  /\ call = None
  /\ ret = None

Next ==
  \/ \E s \in Sessions : Open(s)
  \/ \E s \in Sessions : \E d \in DatesOf(Schedule) : PickDate(s, d)
  \/ \E s \in Sessions : \E p \in Range(PLATFORMS) : PickPlatform(s, p)
  \/ \E s \in Sessions : Shuffle(s)
  \/ \E s \in Sessions : Rerun(s)

Spec == Init /\ [][Next]_vars

(***************************************************************************)
(* The functions applied on their own                                      *)
(***************************************************************************)

CallGeneratorPage ==
  /\ call \in PageCalls
  /\ ret = None
  /\ ret' = Some(generator_page(call.row, call.row["Date"], call.offset,
                                call.platform, call.strava))
  /\ UNCHANGED <<appVars, call>>

\* raised is the exception the call ends with, None when it returns
CallPlatformBlocks ==
  /\ call \in BlocksCalls
  /\ ret = None
  /\ ret' = Some([raised |-> None,
                  text   |-> platform_blocks(call.platform, GREETINGS[1],
                                             ROUTE_INTROS_GENERAL[1], "Radcliffe Market",
                                             "7:00pm", call.routes, call.terrain_flag,
                                             call.safety_note, call.event_text, OUTROS[1])])
  /\ UNCHANGED <<appVars, call>>

CallNextThursday ==
  /\ call \in DateCalls
  /\ ret = None
  /\ ret' = Some(next_thursday(call.today))
  /\ UNCHANGED <<appVars, call>>

InitCalls ==
  /\ now_date \in {Ordinal(2025, 6, 18)}
  /\ session_state = [s \in Sessions |-> EmptyDict]
  /\ date_sel = [s \in Sessions |-> None]
  /\ platform_sel = [s \in Sessions |-> None]
  /\ answers = [s \in Sessions |-> None]
  /\ seed_used = [s \in Sessions |-> ""]
  /\ message = [s \in Sessions |-> <<>>]
  /\ shuffles = [s \in Sessions |-> 0]
  /\ call \in PageCalls \cup BlocksCalls \cup DateCalls
  /\ ret = None

NextCalls ==
  \/ CallGeneratorPage
  \/ CallPlatformBlocks
  \/ CallNextThursday

SpecCalls == InitCalls /\ [][NextCalls]_vars

(***************************************************************************)
(* Reading a rendered message                                              *)
(***************************************************************************)

StartsWith(s, prefix) ==
  Len(s) >= Len(prefix) /\ SubSeq(s, 1, Len(prefix)) = prefix

HasLine(m, l) == \E i \in 1..Len(m) : m[i] = l

IsSafetyLine(l) == l \in Range(SAFETY_NOTES)

HasSafety(m) == \E i \in 1..Len(m) : IsSafetyLine(m[i])

IsHashtagLine(l) == StartsWith(l, "#")

\* the bullet line of a route slot
Bullet(name, url) == "- " \o name \o ": " \o url

\* the page call has returned
PageDone == call.fn = "generator_page" /\ ret # None

BlocksDone == call.fn = "platform_blocks" /\ ret # None

DateDone == call.fn = "next_thursday" /\ ret # None

NotesOf(row) == cell_text(row, "Notes", "")

SpecialOf(row) == cell_text(row, "Special events", "")

LinkOf(row) == cell_text(row, "Meeting point google link", "")

SlotsOf(row) ==
  { <<cell_text(row, "8k Route", "8k route"), cell_text(row, "8k Strava link", "")>>,
    <<cell_text(row, "5k Route", "5k route"), cell_text(row, "5k Strava link", "")>> }

EndsWith(s, suffix) ==
  Len(s) >= Len(suffix) /\ SubSeq(s, Len(s) - Len(suffix) + 1, Len(s)) = suffix

\* which fragment of the special-event block a line is, "" for any other line
KindOf(l) ==
  IF l \in Range(EVENT_TEMPLATES["Social after the run"]) THEN "social"
  ELSE IF l \in Range(EVENT_TEMPLATES["Wear it green"]) THEN "green"
  ELSE IF l \in Range(EVENT_TEMPLATES["Pride"]) THEN "pride"
  ELSE IF StartsWith(l, "We're on tour!") THEN "tour"
  ELSE IF StartsWith(l, GenericPrefix) THEN "generic"
  ELSE ""

IsEventLine(l) == KindOf(l) # ""

IsFragmentLine(l) == KindOf(l) \in {"social", "green", "pride", "tour"}

KindsOf(ls) == [i \in 1..Len(ls) |-> KindOf(ls[i])]

\* the kinds of the lines of the special-event block, in message order
EventKinds(m) == KindsOf(SelectSeq(m, IsEventLine))

\* the same without the generic fallback line
FragmentKinds(m) == KindsOf(SelectSeq(m, IsFragmentLine))

Times(m, kind) == Cardinality({i \in 1..Len(m) : KindOf(m[i]) = kind})

When(cond, kind) == IF cond THEN <<kind>> ELSE <<>>

\* the conditional blocks a message includes
Blocks(m) ==
  [safety |-> HasSafety(m),
   events |-> EventKinds(m),
   trail  |-> \E x \in Range(TRAIL_INTROS) : EndsWith(m[1], x),
   road   |-> \E x \in Range(ROAD_INTROS) : EndsWith(m[1], x)]

\* the message the session would show with the shuffle counter at 0
Unshuffled(s) ==
  PageTable[<<date_sel[s][1], 0, platform_sel[s][1], answers[s][1]>>].msg

\* the metrics line of a route up to the elevation descriptor
MetricsPrefix(r) ==
  "  " \o Km1f(r.km10) \o " km with " \o IntStr(r.elev) \o "m of elevation - "

IsMetricsLine(l) == Contains("m of elevation - ", l)

\* the descriptors of the metrics lines a message has for route r
Descriptors(m, r) ==
  { SubSeq(m[i], Len(MetricsPrefix(r)) + 1, Len(m[i])) :
      i \in {j \in 1..Len(m) : StartsWith(m[j], MetricsPrefix(r))} }

MetricsLines(m) == {i \in 1..Len(m) : IsMetricsLine(m[i])}

NonBlank(l) == l # ""

IsBullet(l) == StartsWith(l, "- ")

IsLandmarkLine(l) == StartsWith(l, "  This route passes ")

\* the place of a line in the layout of platform_blocks: 1 intro, 2 meeting
\* point, 3 departure time, 4 routes header, 5 a route's lines, 6 safety
\* note, 7 special-event block, 8 booking, 9 cancellation, 10 outro
Stage(l) ==
  IF \E g \in Range(GREETINGS) : StartsWith(l, g) THEN 1
  ELSE IF Contains("Meeting at:", l) THEN 2
  ELSE IF Contains("We set off at 7:00pm", l) THEN 3
  ELSE IF l \in Range(ROUTE_INTROS_GENERAL) THEN 4
  ELSE IF IsBullet(l) \/ IsMetricsLine(l) \/ IsLandmarkLine(l) THEN 5
  ELSE IF IsSafetyLine(l) THEN 6
  ELSE IF IsEventLine(l) THEN 7
  ELSE IF l = BookLine THEN 8
  ELSE IF l = CancelLine THEN 9
  ELSE IF l \in Range(OUTROS) THEN 10
  ELSE 11

\* the route slots of a row in input order
SlotSeq(row) ==
  << <<cell_text(row, "8k Route", "8k route"), cell_text(row, "8k Strava link", "")>>,
     <<cell_text(row, "5k Route", "5k route"), cell_text(row, "5k Strava link", "")>> >>

\* the number of bullet lines among the first i lines
BulletsUpTo(m, i) == Cardinality({j \in 1..i : IsBullet(m[j])})

(***************************************************************************)
(* Claims                                                                  *)
(***************************************************************************)

\* C1: the rendered message contains a safety-note line if and only if the
\* notes contain "after dark" (case-insensitive), whatever the platform and
\* whether or not the notes also contain "trail".
C1_SafetyIffAfterDark ==
  PageDone =>
    (HasSafety(ret[1].msg) <=> Contains("after dark", lower(NotesOf(call.row))))

\* C2: the bullet line of a route slot appears in the rendered message if and
\* only if both the slot's name and its URL are non-empty.
C2_BulletIffNameAndUrl ==
  PageDone =>
    \A slot \in SlotsOf(call.row) :
      HasLine(ret[1].msg, Bullet(slot[1], slot[2])) <=> (slot[1] # "" /\ slot[2] # "")

\* C3: whatever the shuffle counter of a session, the conditional blocks of
\* its message (safety note, special-event fragments, trail/road intro
\* sentence) are those of the message for the same date, platform and route
\* data with the counter at 0.
C3_ShuffleKeepsBlocks ==
  \A s \in Sessions : Opened(s) => Blocks(message[s]) = Blocks(Unshuffled(s))

\* a shuffled session whose wording changed and whose message has a
\* conditional block
C3_Witness ==
  \E s \in Sessions :
    /\ Opened(s)
    /\ session_state[s].var_seed_offset >= 1
    /\ message[s] # Unshuffled(s)
    /\ (HasSafety(message[s]) \/ Len(EventKinds(message[s])) >= 2)

C5_UnknownPlatformFails ==
  (BlocksDone /\ call.platform \notin Range(PLATFORMS)) =>
    (ret[1].raised = Some("UnknownPlatformError") /\ ret[1].text = <<>>)

\* C6 as stated: for a non-empty special-event text the fragments of the event
\* block are one per matched token in the order social, green ("wear it
\* green" or "mental health awareness"), pride, on-tour ("on tour").
C6_SpecOrder ==
  (PageDone /\ SpecialOf(call.row) # "") =>
    LET e == lower(SpecialOf(call.row))
    IN  FragmentKinds(ret[1].msg) =
          When(Contains("social", e), "social")
          \o When(Contains("wear it green", e) \/ Contains("mental health awareness", e),
                  "green")
          \o When(Contains("pride", e), "pride")
          \o When(Contains("on tour", e), "tour")

\* C6 as amended: for a non-empty special-event text the fragments of the
\* event block are one per matched token in the order social ("social"),
\* on-tour ("rtr on tour" and a map link), green ("wear it green"), pride
\* ("pride"); a text matching several tokens gets all of their fragments.
C6_CodeOrder ==
  (PageDone /\ SpecialOf(call.row) # "") =>
    LET e == lower(SpecialOf(call.row))
    IN  FragmentKinds(ret[1].msg) =
          When(Contains("social", e), "social")
          \o When(Contains("rtr on tour", e) /\ LinkOf(call.row) # "", "tour")
          \o When(Contains("wear it green", e), "green")
          \o When(Contains("pride", e), "pride")

\* "Pride social this week": the social and the pride fragment
C6_Witness ==
  /\ PageDone
  /\ SpecialOf(call.row) = "Pride social this week"
  /\ FragmentKinds(ret[1].msg) = <<"social", "pride">>

\* C7 as stated: the generic fallback line is there exactly once iff the
\* special-event text is non-empty and matches no known token; a text
\* matching "on tour" gets the on-tour fragment (with the map link when there
\* is one) and no fallback line.
C7_FallbackIffNoToken ==
  PageDone =>
    LET special == SpecialOf(call.row)
        e       == lower(special)
        link    == LinkOf(call.row)
        m       == ret[1].msg
        known   == \/ Contains("social", e)
                   \/ Contains("wear it green", e)
                   \/ Contains("mental health awareness", e)
                   \/ Contains("pride", e)
                   \/ Contains("on tour", e)
    IN  /\ Times(m, "generic") = (IF special # "" /\ ~known THEN 1 ELSE 0)
        /\ Contains("on tour", e) =>
              /\ Times(m, "tour") = 1
              /\ link # "" => \E i \in 1..Len(m) :
                                KindOf(m[i]) = "tour" /\ EndsWith(m[i], link)

\* C7 as amended: the generic fallback line is there exactly once iff the
\* special-event text is non-empty and gets no fragment: it matches none of
\* "social", "wear it green", "pride", and it does not both contain "rtr on
\* tour" and come with a map link.  The on-tour fragment is there iff the
\* text contains "rtr on tour" and there is a map link, which it embeds.
C7_FallbackIffNoFragment ==
  PageDone =>
    LET special == SpecialOf(call.row)
        e       == lower(special)
        link    == LinkOf(call.row)
        m       == ret[1].msg
        tour    == Contains("rtr on tour", e) /\ link # ""
        matched == \/ Contains("social", e)
                   \/ Contains("wear it green", e)
                   \/ Contains("pride", e)
                   \/ tour
    IN  /\ Times(m, "generic") = (IF special # "" /\ ~matched THEN 1 ELSE 0)
        /\ Times(m, "generic") = 1 => HasLine(m, GenericPrefix \o special)
        /\ Times(m, "tour") = (IF tour THEN 1 ELSE 0)
        /\ tour => HasLine(m, TourPrefix \o link)

\* "RTR on tour" without a map link: the fallback line, no on-tour fragment
C7_Witness ==
  /\ PageDone
  /\ Contains("rtr on tour", lower(SpecialOf(call.row)))
  /\ LinkOf(call.row) = ""
  /\ HasLine(ret[1].msg, GenericPrefix \o SpecialOf(call.row))
  /\ Times(ret[1].msg, "tour") = 0

\* C8 as stated: next_thursday(today) is a Thursday strictly after today and
\* at most 7 days later (a Thursday gives today + 7).
C8_StrictlyAfterToday ==
  DateDone =>
    /\ weekday(ret[1]) = 3
    /\ call.today < ret[1]
    /\ ret[1] <= call.today + 7

\* C8 as amended: next_thursday(today) is a Thursday on or after today and at
\* most 6 days later; when today is a Thursday the result is today.
C8_OnOrAfterToday ==
  DateDone =>
    /\ weekday(ret[1]) = 3
    /\ call.today <= ret[1]
    /\ ret[1] <= call.today + 6
    /\ (weekday(call.today) = 3 => ret[1] = call.today)

C8_Witness == DateDone /\ weekday(call.today) = 3 /\ ret[1] = call.today

\* C9: a session's shuffle counter exists from its first render, equals the
\* number of shuffles done in that session (0 before any), and the seed of
\* the session's last render ends with "-#" and the current counter.
C9_CounterPerSession ==
  \A s \in Sessions :
    /\ HasKey(session_state[s], "var_seed_offset") <=> Opened(s)
    /\ ~Opened(s) => shuffles[s] = 0
    /\ Opened(s) =>
         /\ session_state[s].var_seed_offset = shuffles[s]
         /\ EndsWith(seed_used[s], "-#" \o IntStr(session_state[s].var_seed_offset))

\* one session shuffled while the other, open as well, still has counter 0
C9_Witness ==
  \E s, t \in Sessions :
    /\ Opened(s) /\ Opened(t)
    /\ session_state[s].var_seed_offset = 1 /\ shuffles[s] = 1
    /\ session_state[t].var_seed_offset = 0 /\ shuffles[t] = 0
    /\ EndsWith(seed_used[s], "-#1") /\ EndsWith(seed_used[t], "-#0")

\* C10: on Instagram the message ends with the outro followed by a hashtag
\* line; on every other platform there is no hashtag line and the outro is
\* the last line.
C10_InstagramHashtags ==
  PageDone =>
    LET m == ret[1].msg
        n == Len(m)
    IN  IF call.platform = "Instagram"
        THEN n >= 2 /\ m[n - 1] \in Range(OUTROS) /\ IsHashtagLine(m[n])
        ELSE m[n] \in Range(OUTROS) /\ \A i \in 1..n : ~IsHashtagLine(m[i])

\* C11 as stated: every route of the call with an elevation gain e >= 0 has
\* its metrics line, also with distance 0, and the descriptor comes from the
\* pool of the band among [0,20), [20,60), [60,140), [140,infinity) holding e.
C11_MetricsEveryBand ==
  BlocksDone =>
    \A k \in 1..Len(call.routes) :
      LET r    == call.routes[k]
          band == IF r.elev < 20 THEN 1 ELSE IF r.elev < 60 THEN 2
                  ELSE IF r.elev < 140 THEN 3 ELSE 4
      IN  r.elev >= 0 =>
            /\ Descriptors(ret[1].text, r) # {}
            /\ Descriptors(ret[1].text, r) \subseteq Range(ELEVATION_TEXT_CHOICES[band].choices)

\* C11 as amended: a route has its metrics line, exactly one, iff its
\* distance is not 0; for 0 <= e < 99999 the descriptor comes from the pool
\* of the band among [0,20), [20,60), [60,140), [140,99999) holding e, and
\* for e >= 99999 it is "varied terrain".
C11_MetricsWhenDistance ==
  BlocksDone =>
    \A k \in 1..Len(call.routes) :
      LET r    == call.routes[k]
          m    == ret[1].text
          band == IF r.elev < 20 THEN 1 ELSE IF r.elev < 60 THEN 2
                  ELSE IF r.elev < 140 THEN 3 ELSE 4
          pool == IF r.elev < 99999 THEN Range(ELEVATION_TEXT_CHOICES[band].choices)
                  ELSE {"varied terrain"}
      IN  r.elev >= 0 =>
            IF r.km10 = 0 THEN MetricsLines(m) = {}
            ELSE /\ Cardinality(MetricsLines(m)) = 1
                 /\ Cardinality(Descriptors(m, r)) = 1
                 /\ Descriptors(m, r) \subseteq pool

\* a route of 8.1 km with exactly 140 m of gain: a descriptor of the last band
C11_Witness ==
  /\ BlocksDone
  /\ Len(call.routes) = 1
  /\ call.routes[1].km10 = 81 /\ call.routes[1].elev = 140
  /\ Descriptors(ret[1].text, call.routes[1]) # {}
  /\ Descriptors(ret[1].text, call.routes[1])
       \subseteq Range(ELEVATION_TEXT_CHOICES[4].choices)

\* C12 as stated: two renders of the same record with the same counter and
\* different platforms use different seeds, and two renders with the same
\* date, platform and counter use the same seed.
C12_SeedHasPlatform ==
  \A s, t \in Sessions :
    (Opened(s) /\ Opened(t) /\ date_sel[s] = date_sel[t]
     /\ session_state[s].var_seed_offset = session_state[t].var_seed_offset)
    => (seed_used[s] = seed_used[t] <=> platform_sel[s] = platform_sel[t])

\* C12 as amended: the seed is composed from the date, the terrain flag, the
\* special-event text and the counter, not from the platform: two renders
\* use the same seed iff they have the same date (hence the same record) and
\* the same counter, whatever their platforms.
C12_SeedFromDateAndCounter ==
  \A s, t \in Sessions :
    (Opened(s) /\ Opened(t)) =>
      (seed_used[s] = seed_used[t]
         <=> (/\ date_sel[s] = date_sel[t]
              /\ session_state[s].var_seed_offset = session_state[t].var_seed_offset))

\* two sessions on the same date, both shuffled once, on different platforms
C12_Witness ==
  \E s, t \in Sessions :
    /\ Opened(s) /\ Opened(t)
    /\ date_sel[s] = date_sel[t]
    /\ session_state[s].var_seed_offset = 1
    /\ session_state[t].var_seed_offset = 1
    /\ platform_sel[s] # platform_sel[t]
    /\ seed_used[s] = seed_used[t]

\* C13: the lines of a message come in the order intro, meeting point,
\* departure time, routes header, the routes' lines, safety note, special
\* event block, booking line, cancellation line, outro; the bullets are in
\* the row's slot order, and a metrics or landmarks line directly follows
\* the bullet (or the metrics line) of the route it describes.
C13_FixedOrder ==
  PageDone =>
    LET m     == ret[1].msg
        st    == Tabulated([i \in 1..Len(m) |-> IF NonBlank(m[i]) THEN Stage(m[i]) ELSE 0])
        body  == {i \in 1..Len(m) : st[i] # 0}
        slots == SlotSeq(call.row)
        data  == call.strava.fetched
    IN  /\ \A i \in body : st[i] \in 1..10
        /\ \A i, j \in body : i < j => st[i] <= st[j]
        /\ \A k \in {1, 2, 3, 4, 8, 9, 10} : Cardinality({i \in body : st[i] = k}) = 1
        /\ st[1] = 1 /\ st[Len(m)] = 10
        /\ \A i \in {j \in body : st[j] = 5} :
              LET k == BulletsUpTo(m, i)
              IN  /\ IsBullet(m[i]) =>
                       k <= Len(slots) /\ m[i] = Bullet(slots[k][1], slots[k][2])
                  /\ IsMetricsLine(m[i]) =>
                       /\ IsBullet(m[i - 1])
                       /\ data[k] # None
                       /\ StartsWith(m[i], MetricsPrefix(data[k][1]))
                  /\ IsLandmarkLine(m[i]) =>
                       /\ IsBullet(m[i - 1]) \/ IsMetricsLine(m[i - 1])
                       /\ data[k] # None
                       /\ m[i] = "  This route passes " \o join(", ", data[k][1].landmarks)

\* a message with every block: both routes with metrics, a landmarks line,
\* the safety note and a special-event block
C13_Witness ==
  /\ PageDone
  /\ Cardinality(MetricsLines(ret[1].msg)) = 2
  /\ \E i \in 1..Len(ret[1].msg) : IsLandmarkLine(ret[1].msg[i])
  /\ HasSafety(ret[1].msg)
  /\ Len(EventKinds(ret[1].msg)) >= 2

====
